---------------------------- MODULE Spec2Model ----------------------------
(* A model of BrowserAgentTool (browser.py): one instance, its three      *)
(* handles, the browser-automation engine it drives, and the calls in     *)
(* flight on it.                                                          *)
(*                                                                        *)
(* Every method is a coroutine of one event loop.  It runs without        *)
(* interruption from its entry, or from the answer to the request it      *)
(* awaits, up to its next await or its end; between two such steps the    *)
(* steps of another call on the same instance may run.  When a method     *)
(* ends, its caller continues at once (Resume) and has the outcome.       *)
(* The engine's answer to each request is drawn nondeterministically.     *)
(*                                                                        *)
(* A handle is 0 (Python None) or the number of the engine instance it    *)
(* belongs to: engine n, its browser n and the page n of that browser.    *)
(* A str is the sequence of its code points; a returned string is kept as *)
(* the sequence of the pieces the f-string concatenates (Concat gives the *)
(* string itself).                                                        *)
EXTENDS Naturals, Sequences, FiniteSets, TLC

VARIABLES playwright, browser, page,   \* self.playwright, self.browser, self.page
          liveEngines, liveBrowsers,   \* engine side: started and not stopped / launched and not closed
          engines,                     \* engine side: number of engine instances started so far
          call                         \* per slot: the call in flight, its position, locals and requests

vars == <<playwright, browser, page, liveEngines, liveBrowsers, engines, call>>

----------------------------------------------------------------------------
(* Bounds *)

MaxEngines == 2
MaxElems == 2

None == 0

\* The calls that can be in flight together; a new call takes the lowest free slot.
Slots == {1, 2}

----------------------------------------------------------------------------
(* Strings.  A Python str is the sequence of its code points (ord).       *)

\* The characters a string literal can hold: code points 32..95 and 97..126 in
\* order, and the escapes \t \n \f \r.
AsciiLow == " !\"#$%&'()*+,-./0123456789:;<=>?@ABCDEFGHIJKLMNOPQRSTUVWXYZ[\\]^_"
AsciiHigh == "abcdefghijklmnopqrstuvwxyz{|}~"

\* ord() of a one-character string
Code(ch) ==
  IF ch = "\t" THEN 9
  ELSE IF ch = "\n" THEN 10
  ELSE IF ch = "\f" THEN 12
  ELSE IF ch = "\r" THEN 13
  ELSE IF \E i \in 1..Len(AsciiLow) : SubSeq(AsciiLow, i, i) = ch
    THEN 31 + (CHOOSE i \in 1..Len(AsciiLow) : SubSeq(AsciiLow, i, i) = ch)
  ELSE 96 + (CHOOSE i \in 1..Len(AsciiHigh) : SubSeq(AsciiHigh, i, i) = ch)

\* The str a string literal of the source denotes.
Ord(s) == [i \in 1..Len(s) |-> Code(SubSeq(s, i, i))]

\* The characters str.isspace() holds for.
Whitespace ==
  {9, 10, 11, 12, 13, 28, 29, 30, 31, 32, 133, 160, 5760}
    \cup (8192..8202) \cup {8232, 8233, 8239, 8287, 12288}

\* The characters of the model's strings: Latin-1 and the whitespace beyond it.
Chars == (0..255) \cup Whitespace

\* str.isprintable() of one character of Chars
IsPrintable(cp) == cp \in (32..126) \cup ((161..255) \ {173})

RECURSIVE Concat(_)
Concat(pieces) ==
  IF pieces = <<>> THEN <<>> ELSE Head(pieces) \o Concat(Tail(pieces))

RECURSIVE LStrip(_)
LStrip(cs) ==
  IF cs # <<>> /\ Head(cs) \in Whitespace THEN LStrip(Tail(cs)) ELSE cs

RECURSIVE RStrip(_)
RStrip(cs) ==
  IF cs # <<>> /\ cs[Len(cs)] \in Whitespace THEN RStrip(SubSeq(cs, 1, Len(cs) - 1)) ELSE cs

\* str.strip()
Strip(cs) == RStrip(LStrip(cs))

HexDigits == Ord("0123456789abcdef")

RECURSIVE Hex(_, _)
Hex(n, width) ==
  IF width = 0 THEN <<>> ELSE Append(Hex(n \div 16, width - 1), HexDigits[(n % 16) + 1])

\* repr() of one character inside the quotes `quote`
ReprChar(cp, quote) ==
  IF cp = quote \/ cp = 92 THEN <<92, cp>>
  ELSE IF cp = 9 THEN <<92, 116>>
  ELSE IF cp = 10 THEN <<92, 110>>
  ELSE IF cp = 13 THEN <<92, 114>>
  ELSE IF IsPrintable(cp) THEN <<cp>>
  ELSE IF cp < 256 THEN <<92, 120>> \o Hex(cp, 2)
  ELSE <<92, 117>> \o Hex(cp, 4)

\* repr() of a str: double quotes when it holds ' and no ", single quotes otherwise
StrRepr(cs) ==
  LET has(q) == \E i \in 1..Len(cs) : cs[i] = q
      quote  == IF has(39) /\ ~has(34) THEN 34 ELSE 39
  IN <<quote>> \o Concat([i \in 1..Len(cs) |-> ReprChar(cs[i], quote)]) \o <<quote>>

\* str() of the dict the attribute script returns: {'name': 'value', ...}
RECURSIVE DictItems(_)
DictItems(attrs) ==
  IF attrs = <<>> THEN <<>>
  ELSE StrRepr(attrs[1][1]) \o <<58, 32>> \o StrRepr(attrs[1][2])
       \o (IF Len(attrs) > 1 THEN <<44, 32>> ELSE <<>>) \o DictItems(Tail(attrs))

DictRepr(attrs) == <<123>> \o DictItems(attrs) \o <<125>>

\* str() of a natural number
IntStr(n) == Ord(ToString(n))

----------------------------------------------------------------------------
(* Inputs and engine values *)

Urls == {Ord("http://a")}
Titles == {Ord("Home")}
Selectors == {Ord("a")}
Values == {Ord("hello")}
Contents == {Ord("<html>x</html>")}
EngineErrors == {Ord("Error: engine failure")}
TimeoutErrorMsg == Ord("Timeout 5000ms exceeded.")

\* str() of the AttributeError raised by self.page.<name> while self.page is None
NoneTypeHasNoAttribute == Ord("'NoneType' object has no attribute '")

AttributeError(name) == NoneTypeHasNoAttribute \o Ord(name) \o Ord("'")

(* What the engine reports of an element: tag name, inner text and        *)
(* attributes (name/value pairs in the order the script returns them).    *)
(*   INPUT:  inner text "",               name="q" data-p="a\b"           *)
(*   A:      inner text "\r\fx\xa0y \n",  title="it's"                    *)
(*   BUTTON: inner text "\x85 Go\u3000",  no attribute                    *)
Elements ==
  << [tag |-> Ord("INPUT"), text |-> <<>>,
      attrs |-> << <<Ord("name"), Ord("q")>>, <<Ord("data-p"), Ord("a\\b")>> >>],
     [tag |-> Ord("A"), text |-> <<13, 12, 120, 160, 121, 32, 10>>,
      attrs |-> << <<Ord("title"), Ord("it's")>> >>],
     [tag |-> Ord("BUTTON"), text |-> <<133, 32, 71, 111, 12288>>,
      attrs |-> << >>] >>

\* The match sequence of the page's document: the k-th handle of a query's
\* answer is the k-th of Elements, again from the first after the last.
Matches == [k \in 1..MaxElems |-> Elements[((k - 1) % Len(Elements)) + 1]]

----------------------------------------------------------------------------
(* The literal pieces of the f-strings the methods return *)

NavigatedPrefix == Ord("Successfully navigated to ")
NavigatedTitle == Ord(". The current page title is: '")
Apostrophe == Ord("'")
NavigateFailedPrefix == Ord("Failed to navigate to ")
ErrorInfix == Ord(". Error: ")
NoElementsPrefix == Ord("No elements found with selector: '")
FoundPrefix == Ord("Found ")
FoundInfix == Ord(" elements with selector '")
FoundSuffix == Ord("':\n")
ElementPrefix == Ord("--- Element ")
ElementSuffix == Ord(" ---\n")
TagLabel == Ord("Tag: ")
Newline == Ord("\n")
TextLabel == Ord("Text: ")
AttributesLabel == Ord("Attributes: ")
BlankLine == Ord("\n\n")
ElementsErrorPrefix == Ord("An error occurred while getting elements: ")
ClickedPrefix == Ord("Successfully clicked the element with selector '")
SelectorEnd == Ord("'.")
ClickFailedPrefix == Ord("Failed to click the element with selector '")
SelectorError == Ord("'. Error: ")
FilledPrefix == Ord("Successfully filled the element with selector '")
FillFailedPrefix == Ord("Failed to fill the element with selector '")

----------------------------------------------------------------------------
(* Calls in flight *)

\* One request to the engine and its answer: target is the handle the request
\* was made on, live whether that handle was live when the engine took the
\* request up, ret the value answered or the error raised.
Call(req, target, live, ok, ret) ==
  [req |-> req, target |-> target, live |-> live, ok |-> ok, ret |-> ret]

\* The request a call awaits.
Request(req, target) == [req |-> req, target |-> target]

NoRequest == Request("", None)

\* A slot with no call in flight.
Idle ==
  [op |-> "idle",
   pc |-> "idle",           \* "idle", the await the call is suspended at, or "done"
   args |-> <<>>,
   outcome |-> "none",      \* "pending", "return" or "raise"
   value |-> <<>>,          \* the pieces of the returned string, or <<error>>
   pending |-> NoRequest,   \* the request awaited
   calls |-> <<>>,          \* the requests answered so far, in order
   fromClosed |-> FALSE,    \* initialize: the instance was Closed at entry
   hb |-> None,             \* cleanup: self.browser as line 34 read it
   hp |-> None,             \* cleanup: self.playwright as line 36 read it
   matched |-> 0,           \* get_elements_by_selector: len(elements)
   i |-> 0,                 \* get_elements_by_selector: the loop index
   result |-> <<>>,         \* get_elements_by_selector: result
   timeout |-> 0,           \* click/fill: the timeout passed to the engine, ms
   waited |-> 0]            \* click/fill: how long the engine's wait lasted, ms

\* Entry of a method.
Begin(op, args) == [Idle EXCEPT !.op = op, !.args = args, !.outcome = "pending"]

\* The call sends a request and is suspended at await `pc`.
Await(rec, pc, req, target) ==
  [rec EXCEPT !.pc = pc, !.pending = Request(req, target)]

\* A page answers only while its browser runs.
PageLive(pg) == pg \in liveBrowsers

\* The object a request is made on is live: an engine that was started and not
\* stopped, a browser that was launched and not closed, a page or an element
\* of a page whose browser runs.  start() is made on no object.
Live(request) ==
  IF request.target = None THEN FALSE
  ELSE IF request.req \in {"chromium.launch", "playwright.stop"} THEN request.target \in liveEngines
  ELSE request.target \in liveBrowsers

\* The awaited request is answered.
Answered(rec, ok, ret) ==
  [rec EXCEPT !.calls = Append(@, Call(rec.pending.req, rec.pending.target, Live(rec.pending), ok, ret)),
              !.pending = NoRequest]

Returned(rec, value) == [rec EXCEPT !.pc = "done", !.outcome = "return", !.value = value]
Raised(rec, err) == [rec EXCEPT !.pc = "done", !.outcome = "raise", !.value = <<err>>]

\* The instance holds a running browser and a page that answers.
Ready == /\ browser # None /\ browser \in liveBrowsers
         /\ page # None /\ PageLive(page)

\* The instance holds the handles of a session that has been released: the
\* browser is closed and the engine stopped.
Closed == /\ page # None
          /\ browser # None /\ browser \notin liveBrowsers
          /\ playwright # None /\ playwright \notin liveEngines

\* A method has ended and its caller has not continued yet: the caller continues
\* before anything else runs.
Ending == \E c \in Slots : call[c].pc = "done"

\* A new call can enter on slot c: the lowest free slot, no return under way.
CanEnter(c) ==
  /\ ~Ending
  /\ call[c].pc = "idle"
  /\ \A d \in Slots : d < c => call[d].pc # "idle"

\* The engine can answer slot c, suspended at await `pc` of method `op`.
At(c, op, pc) == ~Ending /\ call[c].op = op /\ call[c].pc = pc

----------------------------------------------------------------------------
(* __init__ *)

Init ==
  /\ playwright = None
  /\ browser = None
  /\ page = None
  /\ liveEngines = {}
  /\ liveBrowsers = {}
  /\ engines = 0
  /\ call = [c \in Slots |-> Idle]

----------------------------------------------------------------------------
(* initialize: start the engine, launch the browser, open a page; each    *)
(* handle is assigned when its await returns.  A raising await ends the   *)
(* call and the assignments before it stay.                               *)

\* initialize calls that await the start of an engine
Starting == {c \in Slots : call[c].op = "initialize" /\ call[c].pc = "start"}

Initialize(c) ==
  /\ CanEnter(c)
  /\ engines + Cardinality(Starting) < MaxEngines
  /\ call' = [call EXCEPT ![c] =
       Await([Begin("initialize", <<>>) EXCEPT !.fromClosed = Closed],
             "start", "async_playwright.start", None)]
  /\ UNCHANGED <<playwright, browser, page, liveEngines, liveBrowsers, engines>>

\* line 27: start() answers with a new engine instance; line 29 sends launch
\* on self.playwright
InitializeStarted(c) ==
  /\ At(c, "initialize", "start")
  /\ \E ok \in BOOLEAN, err \in EngineErrors :
       LET n == engines + 1 IN
       IF ok
         THEN /\ engines' = n
              /\ liveEngines' = liveEngines \cup {n}
              /\ playwright' = n
              /\ call' = [call EXCEPT ![c] =
                   Await(Answered(@, TRUE, n), "launch", "chromium.launch", n)]
         ELSE /\ call' = [call EXCEPT ![c] = Raised(Answered(@, FALSE, err), err)]
              /\ UNCHANGED <<engines, liveEngines, playwright>>
  /\ UNCHANGED <<browser, page, liveBrowsers>>

\* line 29: launch() answers with the browser of that engine; line 30 sends
\* new_page on self.browser.  A browser launched by an engine that was stopped
\* meanwhile does not run.
InitializeLaunched(c) ==
  /\ At(c, "initialize", "launch")
  /\ \E ok \in BOOLEAN, err \in EngineErrors :
       LET n == call[c].pending.target IN
       IF ok
         THEN /\ liveBrowsers' = IF n \in liveEngines THEN liveBrowsers \cup {n} ELSE liveBrowsers
              /\ browser' = n
              /\ call' = [call EXCEPT ![c] =
                   Await(Answered(@, TRUE, n), "new_page", "browser.new_page", n)]
         ELSE /\ call' = [call EXCEPT ![c] = Raised(Answered(@, FALSE, err), err)]
              /\ UNCHANGED <<liveBrowsers, browser>>
  /\ UNCHANGED <<playwright, page, liveEngines, engines>>

\* line 30: new_page() answers with a page of that browser; the method ends
InitializeOpened(c) ==
  /\ At(c, "initialize", "new_page")
  /\ \E ok \in BOOLEAN, err \in EngineErrors :
       LET n == call[c].pending.target IN
       IF ok
         THEN /\ page' = n
              /\ call' = [call EXCEPT ![c] = Returned(Answered(@, TRUE, n), <<>>)]
         ELSE /\ call' = [call EXCEPT ![c] = Raised(Answered(@, FALSE, err), err)]
              /\ UNCHANGED page
  /\ UNCHANGED <<playwright, browser, liveEngines, liveBrowsers, engines>>

----------------------------------------------------------------------------
(* cleanup: close the browser if the handle is set, then stop the engine  *)
(* if the handle is set.  self.playwright is read after close() has       *)
(* answered.  A raising close ends the call before the stop.              *)

\* Variant: the engine is looked at, and stopped, before the browser.
cleanup_first_stop(br, pw) ==
  IF pw # None THEN "stop" ELSE IF br # None THEN "close" ELSE "done"

\* lines 34-37 from entry: the first await reached, "done" when there is none
cleanup_first(br, pw) ==
  IF br # None THEN "close" ELSE IF pw # None THEN "stop" ELSE "done"

\* lines 36-37: the engine is stopped if self.playwright is set
cleanup_stop(rec, pw) ==
  IF pw # None
    THEN Await([rec EXCEPT !.hp = pw], "stop", "playwright.stop", pw)
  ELSE Returned(rec, <<>>)

Cleanup(c) ==
  /\ CanEnter(c)
  /\ LET rec   == [Begin("cleanup", <<>>) EXCEPT !.hb = browser]
         first == cleanup_first(browser, playwright)
     IN /\ call' = [call EXCEPT ![c] =
             IF first = "close"
               THEN Await(rec, "close", "browser.close", browser)
             ELSE IF first = "stop" THEN cleanup_stop(rec, playwright)
             ELSE Returned(rec, <<>>)]
        /\ UNCHANGED <<playwright, browser, page, liveEngines, liveBrowsers, engines>>

\* line 35: close() answers; line 36 reads self.playwright
CleanupClosed(c) ==
  /\ At(c, "cleanup", "close")
  /\ \E ok \in BOOLEAN, err \in EngineErrors :
       LET rec == call[c] IN
       IF ok
         THEN /\ liveBrowsers' = liveBrowsers \ {rec.pending.target}
              /\ call' = [call EXCEPT ![c] = cleanup_stop(Answered(rec, TRUE, <<>>), playwright)]
         ELSE /\ call' = [call EXCEPT ![c] = Raised(Answered(rec, FALSE, err), err)]
              /\ UNCHANGED liveBrowsers
  /\ UNCHANGED <<playwright, browser, page, liveEngines, engines>>

\* line 37: stop() answers; the method ends.  Stopping an engine ends its browser.
CleanupStopped(c) ==
  /\ At(c, "cleanup", "stop")
  /\ \E ok \in BOOLEAN, err \in EngineErrors :
       LET rec == call[c] IN
       IF ok
         THEN /\ liveEngines' = liveEngines \ {rec.pending.target}
              /\ liveBrowsers' = liveBrowsers \ {rec.pending.target}
              /\ call' = [call EXCEPT ![c] = Returned(Answered(rec, TRUE, <<>>), <<>>)]
         ELSE /\ call' = [call EXCEPT ![c] = Raised(Answered(rec, FALSE, err), err)]
              /\ UNCHANGED <<liveEngines, liveBrowsers>>
  /\ UNCHANGED <<playwright, browser, page, engines>>

----------------------------------------------------------------------------
(* go_to_url: goto, then title, both inside the try; any exception,       *)
(* self.page being None included, becomes the "Failed to navigate" string.*)
(* self.page is read again for title() after goto() has answered.         *)

go_to_url_succeeded(url, title) ==
  <<NavigatedPrefix, url, NavigatedTitle, title, Apostrophe>>

go_to_url_failed(url, err) ==
  <<NavigateFailedPrefix, url, ErrorInfix, err>>

\* Variant: title() is awaited after the try statement, so its error is raised.
go_to_url_title_outside_try(rec, url, err) == Raised(rec, err)

\* lines 54-56 for an exception of title()
go_to_url_title_error(rec, url, err) == Returned(rec, go_to_url_failed(url, err))

GoToUrl(c) ==
  /\ CanEnter(c)
  /\ \E url \in Urls :
       LET rec == Begin("go_to_url", <<url>>) IN
       call' = [call EXCEPT ![c] =
         IF page = None THEN Returned(rec, go_to_url_failed(url, AttributeError("goto")))
         ELSE Await(rec, "goto", "page.goto", page)]
  /\ UNCHANGED <<playwright, browser, page, liveEngines, liveBrowsers, engines>>

\* line 51: goto() answers, the page being at url if it succeeded; line 53
\* sends title on self.page.  A page whose browser has ended does not navigate.
GoToUrlNavigated(c) ==
  /\ At(c, "go_to_url", "goto")
  /\ \E ok \in BOOLEAN, err \in EngineErrors :
       LET rec == call[c]
           url == rec.args[1]
       IN
       /\ ok => PageLive(rec.pending.target)
       /\ call' = [call EXCEPT ![c] =
            IF ok THEN Await(Answered(rec, TRUE, url), "title", "page.title", page)
            ELSE Returned(Answered(rec, FALSE, err), go_to_url_failed(url, err))]
  /\ UNCHANGED <<playwright, browser, page, liveEngines, liveBrowsers, engines>>

\* line 53: title() answers; the method ends
GoToUrlTitled(c) ==
  /\ At(c, "go_to_url", "title")
  /\ \E ok \in BOOLEAN, title \in Titles, err \in EngineErrors :
       LET rec == call[c]
           url == rec.args[1]
       IN
       /\ ok => PageLive(rec.pending.target)
       /\ call' = [call EXCEPT ![c] =
            IF ok THEN Returned(Answered(rec, TRUE, title), go_to_url_succeeded(url, title))
            ELSE go_to_url_title_error(Answered(rec, FALSE, err), url, err)]
  /\ UNCHANGED <<playwright, browser, page, liveEngines, liveBrowsers, engines>>

----------------------------------------------------------------------------
(* get_page_content, get_page_text: one engine call, no try: the engine's *)
(* value is returned and every exception reaches the caller.              *)

get_page_content_error(rec, err) == Raised(rec, err)

\* Variant: the call is wrapped in try/except like get_elements_by_selector.
get_page_text_caught(rec, err) == Returned(rec, <<ElementsErrorPrefix, err>>)

get_page_text_error(rec, err) == Raised(rec, err)

GetPageContent(c) ==
  /\ CanEnter(c)
  /\ LET rec == Begin("get_page_content", <<>>) IN
     call' = [call EXCEPT ![c] =
       IF page = None THEN get_page_content_error(rec, AttributeError("content"))
       ELSE Await(rec, "content", "page.content", page)]
  /\ UNCHANGED <<playwright, browser, page, liveEngines, liveBrowsers, engines>>

\* line 66: content() answers
GetPageContentAnswered(c) ==
  /\ At(c, "get_page_content", "content")
  /\ \E ok \in BOOLEAN, val \in Contents, err \in EngineErrors :
       LET rec == call[c] IN
       /\ ok => PageLive(rec.pending.target)
       /\ call' = [call EXCEPT ![c] =
            IF ok THEN Returned(Answered(rec, TRUE, val), <<val>>)
            ELSE get_page_content_error(Answered(rec, FALSE, err), err)]
  /\ UNCHANGED <<playwright, browser, page, liveEngines, liveBrowsers, engines>>

GetPageText(c) ==
  /\ CanEnter(c)
  /\ LET rec == Begin("get_page_text", <<>>) IN
     call' = [call EXCEPT ![c] =
       IF page = None THEN get_page_text_error(rec, AttributeError("text_content"))
       ELSE Await(rec, "text_content", "page.text_content", page)]
  /\ UNCHANGED <<playwright, browser, page, liveEngines, liveBrowsers, engines>>

\* line 76: text_content('body') answers
GetPageTextAnswered(c) ==
  /\ At(c, "get_page_text", "text_content")
  /\ \E ok \in BOOLEAN, val \in Contents, err \in EngineErrors :
       LET rec == call[c] IN
       /\ ok => PageLive(rec.pending.target)
       /\ call' = [call EXCEPT ![c] =
            IF ok THEN Returned(Answered(rec, TRUE, val), <<val>>)
            ELSE get_page_text_error(Answered(rec, FALSE, err), err)]
  /\ UNCHANGED <<playwright, browser, page, liveEngines, liveBrowsers, engines>>

----------------------------------------------------------------------------
(* get_elements_by_selector: the query, then per element three awaited    *)
(* engine calls (inner_text, tagName, attributes) and four appends to     *)
(* result, all inside the try.  The element handles belong to the page    *)
(* the query was sent to; handle k answers as Matches[k].                 *)

elements_none(selector) == <<NoElementsPrefix, selector, Apostrophe>>

elements_header(n, selector) ==
  <<FoundPrefix, IntStr(n), FoundInfix, selector, FoundSuffix>>

\* Variant: the block is numbered with the 0-based loop index.
element_block_zero_based(i, element) ==
  << ElementPrefix, IntStr(i), ElementSuffix,
     TagLabel, element.tag, Newline,
     TextLabel, Strip(element.text), Newline,
     AttributesLabel, DictRepr(element.attrs), BlankLine >>

\* lines 105-108 for loop index i
element_block(i, element) ==
  << ElementPrefix, IntStr(i + 1), ElementSuffix,
     TagLabel, element.tag, Newline,
     TextLabel, Strip(element.text), Newline,
     AttributesLabel, DictRepr(element.attrs), BlankLine >>

\* Variant: the handler returns what was built so far, then the message.
elements_on_error_partial(result, err) ==
  result \o <<ElementsErrorPrefix, err>>

\* lines 110-111
elements_on_error(result, err) ==
  <<ElementsErrorPrefix, err>>

GetElementsBySelector(c) ==
  /\ CanEnter(c)
  /\ \E selector \in Selectors :
       LET rec == Begin("get_elements_by_selector", <<selector>>) IN
       call' = [call EXCEPT ![c] =
         IF page = None
           THEN Returned(rec, elements_on_error(rec.result, AttributeError("query_selector_all")))
         ELSE Await(rec, "query", "page.query_selector_all", page)]
  /\ UNCHANGED <<playwright, browser, page, liveEngines, liveBrowsers, engines>>

\* line 90: query_selector_all() answers with a list of n element handles;
\* lines 91-96 up to the first inner_text()
ElementsQueried(c) ==
  /\ At(c, "get_elements_by_selector", "query")
  /\ \E ok \in BOOLEAN, n \in 0..MaxElems, err \in EngineErrors :
       LET rec      == call[c]
           selector == rec.args[1]
           pg       == rec.pending.target
           got      == Answered(rec, TRUE, [k \in 1..n |-> k])
       IN
       /\ ok => PageLive(pg)
       /\ call' = [call EXCEPT ![c] =
            IF ~ok THEN Returned(Answered(rec, FALSE, err), elements_on_error(rec.result, err))
            ELSE IF n = 0 THEN Returned(got, elements_none(selector))
            ELSE Await([got EXCEPT !.matched = n, !.i = 0, !.result = elements_header(n, selector)],
                       "inner_text", "element.inner_text", pg)]
  /\ UNCHANGED <<playwright, browser, page, liveEngines, liveBrowsers, engines>>

\* line 96: inner_text() of elements[i] answers; line 97 sends the tagName script
ElementText(c) ==
  /\ At(c, "get_elements_by_selector", "inner_text")
  /\ \E ok \in BOOLEAN, err \in EngineErrors :
       LET rec     == call[c]
           pg      == rec.pending.target
           element == Matches[rec.i + 1]
       IN
       /\ ok => PageLive(pg)
       /\ call' = [call EXCEPT ![c] =
            IF ~ok THEN Returned(Answered(rec, FALSE, err), elements_on_error(rec.result, err))
            ELSE Await(Answered(rec, TRUE, element.text),
                       "tagName", "element.evaluate(tagName)", pg)]
  /\ UNCHANGED <<playwright, browser, page, liveEngines, liveBrowsers, engines>>

\* line 97: the tagName script answers; line 98 sends the attributes script
ElementTag(c) ==
  /\ At(c, "get_elements_by_selector", "tagName")
  /\ \E ok \in BOOLEAN, err \in EngineErrors :
       LET rec     == call[c]
           pg      == rec.pending.target
           element == Matches[rec.i + 1]
       IN
       /\ ok => PageLive(pg)
       /\ call' = [call EXCEPT ![c] =
            IF ~ok THEN Returned(Answered(rec, FALSE, err), elements_on_error(rec.result, err))
            ELSE Await(Answered(rec, TRUE, element.tag),
                       "attributes", "element.evaluate(attributes)", pg)]
  /\ UNCHANGED <<playwright, browser, page, liveEngines, liveBrowsers, engines>>

\* line 98: the attributes script answers; lines 105-108 append the block;
\* the loop goes on to the next element or line 109 returns result
ElementAttributes(c) ==
  /\ At(c, "get_elements_by_selector", "attributes")
  /\ \E ok \in BOOLEAN, err \in EngineErrors :
       LET rec     == call[c]
           pg      == rec.pending.target
           element == Matches[rec.i + 1]
           result  == rec.result \o element_block(rec.i, element)
           got     == [Answered(rec, TRUE, element.attrs) EXCEPT !.result = result, !.i = rec.i + 1]
       IN
       /\ ok => PageLive(pg)
       /\ call' = [call EXCEPT ![c] =
            IF ~ok THEN Returned(Answered(rec, FALSE, err), elements_on_error(rec.result, err))
            ELSE IF rec.i + 1 < rec.matched
              THEN Await(got, "inner_text", "element.inner_text", pg)
            ELSE Returned(got, result)]
  /\ UNCHANGED <<playwright, browser, page, liveEngines, liveBrowsers, engines>>

----------------------------------------------------------------------------
(* click_element, fill_form: one locator action with timeout=5000 inside  *)
(* the try.  The engine waits for the element to become actionable for at *)
(* most the timeout it is given: it acts at some time within the bound,   *)
(* gives up with a timeout error exactly at the bound, or fails for       *)
(* another reason (closed page, bad selector) at any time within it.      *)

click_timeout == 5000

\* Variant: fill is called without timeout=, so the engine's default of 30 s applies.
fill_timeout_engine_default == 6 * click_timeout

fill_timeout == 5000

WaitOutcomes(timeout, live) ==
  { w \in [res : {"ok", "timeout", "error"}, at : {0, timeout}] :
      /\ w.res = "timeout" => w.at = timeout
      /\ ~live => w.res = "error" }

WaitError(w, err) == IF w.res = "timeout" THEN TimeoutErrorMsg ELSE err

click_succeeded(selector) ==
  <<ClickedPrefix, selector, SelectorEnd>>

click_failed(selector, err) ==
  <<ClickFailedPrefix, selector, SelectorError, err>>

fill_succeeded(selector) ==
  <<FilledPrefix, selector, SelectorEnd>>

fill_failed(selector, err) ==
  <<FillFailedPrefix, selector, SelectorError, err>>

ClickElement(c) ==
  /\ CanEnter(c)
  /\ \E selector \in Selectors :
       LET rec == Begin("click_element", <<selector>>) IN
       call' = [call EXCEPT ![c] =
         IF page = None THEN Returned(rec, click_failed(selector, AttributeError("locator")))
         ELSE Await([rec EXCEPT !.timeout = click_timeout],
                    "click", "locator.click", page)]
  /\ UNCHANGED <<playwright, browser, page, liveEngines, liveBrowsers, engines>>

\* line 126: click() answers
ClickElementAnswered(c) ==
  /\ At(c, "click_element", "click")
  /\ \E err \in EngineErrors :
     \E w \in WaitOutcomes(call[c].timeout, PageLive(call[c].pending.target)) :
       LET rec      == [call[c] EXCEPT !.waited = w.at]
           selector == rec.args[1]
           e        == WaitError(w, err)
       IN
       call' = [call EXCEPT ![c] =
         IF w.res = "ok" THEN Returned(Answered(rec, TRUE, <<>>), click_succeeded(selector))
         ELSE Returned(Answered(rec, FALSE, e), click_failed(selector, e))]
  /\ UNCHANGED <<playwright, browser, page, liveEngines, liveBrowsers, engines>>

FillForm(c) ==
  /\ CanEnter(c)
  /\ \E selector \in Selectors, value \in Values :
       LET rec == Begin("fill_form", <<selector, value>>) IN
       call' = [call EXCEPT ![c] =
         IF page = None THEN Returned(rec, fill_failed(selector, AttributeError("locator")))
         ELSE Await([rec EXCEPT !.timeout = fill_timeout],
                    "fill", "locator.fill", page)]
  /\ UNCHANGED <<playwright, browser, page, liveEngines, liveBrowsers, engines>>

\* line 145: fill() answers
FillFormAnswered(c) ==
  /\ At(c, "fill_form", "fill")
  /\ \E err \in EngineErrors :
     \E w \in WaitOutcomes(call[c].timeout, PageLive(call[c].pending.target)) :
       LET rec      == [call[c] EXCEPT !.waited = w.at]
           selector == rec.args[1]
           e        == WaitError(w, err)
       IN
       call' = [call EXCEPT ![c] =
         IF w.res = "ok" THEN Returned(Answered(rec, TRUE, <<>>), fill_succeeded(selector))
         ELSE Returned(Answered(rec, FALSE, e), fill_failed(selector, e))]
  /\ UNCHANGED <<playwright, browser, page, liveEngines, liveBrowsers, engines>>

----------------------------------------------------------------------------
(* The caller's await returns: it has the outcome and the slot is free.   *)

Resume(c) ==
  /\ call[c].pc = "done"
  /\ call' = [call EXCEPT ![c] = Idle]
  /\ UNCHANGED <<playwright, browser, page, liveEngines, liveBrowsers, engines>>

\* One step of the call on slot c, or its entry.
Step(c) ==
  \/ Initialize(c)
  \/ InitializeStarted(c)
  \/ InitializeLaunched(c)
  \/ InitializeOpened(c)
  \/ Cleanup(c)
  \/ CleanupClosed(c)
  \/ CleanupStopped(c)
  \/ GoToUrl(c)
  \/ GoToUrlNavigated(c)
  \/ GoToUrlTitled(c)
  \/ GetPageContent(c)
  \/ GetPageContentAnswered(c)
  \/ GetPageText(c)
  \/ GetPageTextAnswered(c)
  \/ GetElementsBySelector(c)
  \/ ElementsQueried(c)
  \/ ElementText(c)
  \/ ElementTag(c)
  \/ ElementAttributes(c)
  \/ ClickElement(c)
  \/ ClickElementAnswered(c)
  \/ FillForm(c)
  \/ FillFormAnswered(c)
  \/ Resume(c)

Next == \E c \in Slots : Step(c)

Spec == Init /\ [][Next]_vars

\* The use the docstrings describe: one caller, which awaits each call before
\* it makes the next, so no two calls are in flight together.
SerialNext == Step(1)

SerialSpec == Init /\ [][SerialNext]_vars

----------------------------------------------------------------------------
(* Claims.  A claim about a method is stated of the state in which the    *)
(* method has just ended (pc = "done"), where call[c] holds its outcome,  *)
(* what it returned or raised, and the requests it made.                  *)

StringOps == {"go_to_url", "get_elements_by_selector", "click_element", "fill_form"}

\* Slot c holds a call of a method of `ops` that has just ended.
Ended(c, ops) == call[c].pc = "done" /\ call[c].op \in ops

\* The requests a call made, in order.
Reqs(rec) == [k \in 1..Len(rec.calls) |-> rec.calls[k].req]

\* The last request a call made.
LastCall(rec) == rec.calls[Len(rec.calls)]

\* The twelve pieces of the k-th block of a report.
BlockAt(value, k) == SubSeq(value, 5 + 12 * (k - 1) + 1, 5 + 12 * k)

\* C1: go_to_url, get_elements_by_selector, click_element and fill_form always
\* end by returning a string, in every lifecycle state and whatever engine
\* request fails; none of them ends by raising.
C1_StringOpsReturn ==
  \A c \in Slots :
    /\ call[c].op \in StringOps => call[c].outcome # "raise"
    /\ Ended(c, StringOps) => call[c].outcome = "return" /\ call[c].value # <<>>

\* A string operation has ended after cleanup, its engine request having failed.
C1_Witness ==
  \E c \in Slots :
    /\ Ended(c, StringOps)
    /\ Closed
    /\ call[c].calls # <<>>
    /\ ~LastCall(call[c]).ok
    /\ call[c].outcome = "return"

\* C2: once cleanup has completed on a running instance (the instance is
\* Closed), no later initialize brings the instance back to Ready.
C2_ClosedIsFinal ==
  \A c \in Slots :
    (Ended(c, {"initialize"}) /\ call[c].fromClosed) => ~Ready

\* C3: cleanup on an instance that was never initialized returns without a
\* request, and no cleanup sends a close or stop request on a handle that has
\* already been released.
C3_CleanupIdempotentSafe ==
  \A c \in Slots :
    Ended(c, {"cleanup"}) =>
      /\ (call[c].hb = None /\ call[c].hp = None) =>
           (call[c].outcome = "return" /\ call[c].calls = <<>>)
      /\ \A k \in 1..Len(call[c].calls) : call[c].calls[k].live

\* C4: when cleanup has completed, no engine and no browser that initialize
\* started on the instance is still live.
C4_CleanupReleasesAll ==
  \A c \in Slots :
    (Ended(c, {"cleanup"}) /\ call[c].outcome = "return") =>
      (liveEngines = {} /\ liveBrowsers = {})

\* C5: cleanup closes the browser it found set first and stops the engine only
\* after that close has completed; an absent handle is skipped without fault,
\* and with no browser handle the engine is still stopped.
C5_CleanupOrder ==
  \A c \in Slots :
    Ended(c, {"cleanup"}) =>
      LET rec == call[c] IN
      /\ Reqs(rec) \in { <<>>, <<"browser.close">>, <<"playwright.stop">>,
                         <<"browser.close", "playwright.stop">> }
      /\ rec.hb # None =>
           (rec.calls # <<>> /\ rec.calls[1].req = "browser.close" /\ rec.calls[1].target = rec.hb)
      /\ rec.hb = None => \A k \in 1..Len(rec.calls) : rec.calls[k].req # "browser.close"
      /\ Len(rec.calls) = 2 => rec.calls[1].ok
      /\ (rec.calls # <<>> /\ LastCall(rec).req = "playwright.stop") =>
           (rec.hp # None /\ LastCall(rec).target = rec.hp)
      /\ (rec.hb = None /\ rec.hp # None) => Reqs(rec) = <<"playwright.stop">>
      /\ (rec.hb = None /\ rec.hp = None) => (rec.calls = <<>> /\ rec.outcome = "return")
      /\ (rec.hb # None /\ rec.calls[1].ok /\ rec.hp # None) =>
           Reqs(rec) = <<"browser.close", "playwright.stop">>

\* A cleanup has closed the browser and then stopped the engine.
C5_Witness ==
  \E c \in Slots :
    /\ Ended(c, {"cleanup"})
    /\ Reqs(call[c]) = <<"browser.close", "playwright.stop">>
    /\ call[c].calls[1].ok /\ call[c].calls[2].ok
    /\ call[c].outcome = "return"

\* C6: get_page_content and get_page_text raise whatever their engine request
\* raises, raise when the page handle is absent, and otherwise return exactly
\* the value the engine answered.
C6_ReadsPropagate ==
  \A c \in Slots :
    Ended(c, {"get_page_content", "get_page_text"}) =>
      LET rec == call[c] IN
      /\ page = None => rec.outcome = "raise"
      /\ rec.calls = <<>> =>
           /\ page = None
           /\ rec.outcome = "raise"
           /\ rec.value = << AttributeError(IF rec.op = "get_page_content"
                                            THEN "content" ELSE "text_content") >>
      /\ rec.calls # <<>> =>
           /\ Len(rec.calls) = 1
           /\ rec.value = <<rec.calls[1].ret>>
           /\ rec.outcome = IF rec.calls[1].ok THEN "return" ELSE "raise"

\* get_page_text has ended on a failed engine request.
C6_Witness ==
  \E c \in Slots :
    /\ Ended(c, {"get_page_text"})
    /\ call[c].calls # <<>>
    /\ ~call[c].calls[1].ok
    /\ call[c].outcome = "raise"

\* C7: when the query answers n handles, get_elements_by_selector returns the
\* "No elements found" message for n = 0, and for n >= 1 with every
\* introspection answered the header "Found n elements ..." followed by
\* exactly n blocks, block k numbered k and holding what the engine answered
\* for the k-th handle: its tag name, its inner text stripped, its attributes.
C7_ElementReport ==
  \A c \in Slots :
    (/\ Ended(c, {"get_elements_by_selector"})
     /\ call[c].calls # <<>>
     /\ \A k \in 1..Len(call[c].calls) : call[c].calls[k].ok) =>
      LET rec      == call[c]
          selector == rec.args[1]
          n        == Len(rec.calls[1].ret)
      IN
      /\ rec.outcome = "return"
      /\ n = 0 => rec.value = <<NoElementsPrefix, selector, Apostrophe>>
      /\ n >= 1 =>
           /\ Len(rec.calls) = 1 + 3 * n
           /\ Len(rec.value) = 5 + 12 * n
           /\ SubSeq(rec.value, 1, 5) = <<FoundPrefix, IntStr(n), FoundInfix, selector, FoundSuffix>>
           /\ \A k \in 1..n :
                /\ rec.calls[3 * k - 1].ret = Matches[k].text
                /\ rec.calls[3 * k].ret = Matches[k].tag
                /\ rec.calls[3 * k + 1].ret = Matches[k].attrs
                /\ BlockAt(rec.value, k) =
                     << ElementPrefix, IntStr(k), ElementSuffix,
                        TagLabel, rec.calls[3 * k].ret, Newline,
                        TextLabel, Strip(rec.calls[3 * k - 1].ret), Newline,
                        AttributesLabel, DictRepr(rec.calls[3 * k + 1].ret), BlankLine >>

\* A report of MaxElems elements has been returned: the first has no text and
\* the attributes name="q" data-p="a\b", the second the text "\r\fx\xa0y \n"
\* and the attribute title="it's".
C7_Witness ==
  \E c \in Slots :
    /\ Ended(c, {"get_elements_by_selector"})
    /\ call[c].outcome = "return"
    /\ Len(call[c].calls) = 1 + 3 * MaxElems
    /\ \A k \in 1..Len(call[c].calls) : call[c].calls[k].ok
    /\ BlockAt(call[c].value, 1)[8] = <<>>
    /\ BlockAt(call[c].value, 1)[11] = Ord("{'name': 'q', 'data-p': 'a\\\\b'}")
    /\ BlockAt(call[c].value, 2)[8] = <<120, 160, 121>>
    /\ BlockAt(call[c].value, 2)[11] = Ord("{'title': \"it's\"}")

\* C8: go_to_url returns "Successfully navigated to ..." with the title or
\* "Failed to navigate to ..." with the error, and it returns the latter only
\* when the navigation did not take place.
C8_FailedOnlyIfNotNavigated ==
  \A c \in Slots :
    Ended(c, {"go_to_url"}) =>
      LET rec == call[c] IN
      /\ rec.value[1] \in {NavigatedPrefix, NavigateFailedPrefix}
      /\ rec.value[1] = NavigateFailedPrefix =>
           ~ \E k \in 1..Len(rec.calls) : rec.calls[k].req = "page.goto" /\ rec.calls[k].ok

\* C9 as stated: click_element and fill_form return a "Failed to ..." string
\* only once the 5000 ms bound has elapsed.
C9_FailedOnlyAfterBound ==
  \A c \in Slots :
    (/\ Ended(c, {"click_element", "fill_form"})
     /\ call[c].value[1] \in {ClickFailedPrefix, FillFailedPrefix}) =>
      call[c].waited = click_timeout

\* C9: click_element and fill_form pass the same bound of 5000 ms to the
\* engine and end within it: success when the engine acted, "Failed to ..."
\* with the engine's error otherwise, at the bound when the error is the
\* timeout, and at once when the page handle is absent.
C9_WaitBound ==
  \A c \in Slots :
    Ended(c, {"click_element", "fill_form"}) =>
      LET rec       == call[c]
          succeeded == IF rec.op = "click_element" THEN ClickedPrefix ELSE FilledPrefix
          failed    == IF rec.op = "click_element" THEN ClickFailedPrefix ELSE FillFailedPrefix
      IN
      /\ rec.outcome = "return"
      /\ rec.value[1] \in {succeeded, failed}
      /\ rec.waited <= click_timeout
      /\ rec.calls = <<>> =>
           /\ rec.value[1] = failed
           /\ rec.value[4] = AttributeError("locator")
           /\ rec.waited = 0
      /\ rec.calls # <<>> =>
           /\ Len(rec.calls) = 1
           /\ rec.timeout = click_timeout
           /\ rec.calls[1].ok => rec.value[1] = succeeded
           /\ ~rec.calls[1].ok => (rec.value[1] = failed /\ rec.value[4] = rec.calls[1].ret)
           /\ (~rec.calls[1].ok /\ rec.calls[1].ret = TimeoutErrorMsg) => rec.waited = rec.timeout

\* fill_form has failed on the engine's timeout, at the bound.
C9_Witness ==
  \E c \in Slots :
    /\ Ended(c, {"fill_form"})
    /\ call[c].calls # <<>>
    /\ call[c].calls[1].ret = TimeoutErrorMsg
    /\ call[c].value[1] = FillFailedPrefix
    /\ call[c].waited = fill_timeout

\* C10: when the query matched and an introspection of some element fails,
\* get_elements_by_selector returns only "An error occurred while getting
\* elements: <error>", with nothing of the header and blocks built before.
C10_AllOrNothing ==
  \A c \in Slots :
    (/\ Ended(c, {"get_elements_by_selector"})
     /\ Len(call[c].calls) >= 2
     /\ ~LastCall(call[c]).ok) =>
      /\ call[c].outcome = "return"
      /\ call[c].value = <<ElementsErrorPrefix, LastCall(call[c]).ret>>

\* An introspection of the second element has failed after the first block was built.
C10_Witness ==
  \E c \in Slots :
    /\ Ended(c, {"get_elements_by_selector"})
    /\ Len(call[c].calls) >= 5
    /\ ~LastCall(call[c]).ok
    /\ Len(call[c].result) = 5 + 12
    /\ call[c].value = <<ElementsErrorPrefix, LastCall(call[c]).ret>>

=============================================================================
